---------------------------- MODULE Spec2Model ----------------------------
(***************************************************************************)
(* Lindblad master-equation solver: the mesolve driver (argument checks,   *)
(* batching flags, solver selection), the Fock-state constructor, and the  *)
(* fixed-step Rouchon integrators of order 1, 1.5 and 2 with their         *)
(* backward (adjoint) steps.                                               *)
(*                                                                         *)
(* Numbers are exact: a complex number is <<re, im, den>> standing for     *)
(* (re + i*im)/den with den > 0 and the three in lowest terms; den = 0 is  *)
(* the not-a-number a division by zero produces.  A matrix is 2 x 2, a     *)
(* pair of rows.  Square roots are taken of rational squares only.         *)
(***************************************************************************)
EXTENDS Integers, Sequences, FiniteSets, TLC

VARIABLES
    \* ---- MERouchon solver instance and its stepping loop
    method,     \* "Rouchon1" | "Rouchon1_5" | "Rouchon2": the class constructed
    sys,        \* [H0, H1, Ls]: H(t) = H0 + t*H1 and the jump operators
    sdt,        \* self.dt = options.dt, fixed at construction
    selfH,      \* self.H read as a tensor, without a call at a time
    rho,        \* the threaded density matrix
    phi,        \* the co-state of the backward pass
    t,          \* current time
    nfwd,       \* forward steps taken
    nbwd,       \* backward steps taken
    last,       \* [op, t, dt, rho, phi]: the last step's call and arguments
    rerr        \* "none" | "NotImplementedError"

rvars == <<method, sys, sdt, selfH, rho, phi, t, nfwd, nbwd, last, rerr>>

VARIABLES
    \* ---- one call of mesolve
    args,        \* [H, jump_ops, rho0, tsave, exp_ops, solver, gradient]
    pc,          \* the statement the call is at
    rho0,        \* the shape of the local rho0 (todm rebinds it)
    li,          \* loop index of the jump-operator checks
    log,         \* the statements executed so far, in order
    warnings,    \* logging.warn calls made
    is_batched,  \* the tuple _vmap_mesolve builds
    solver_class,\* the class get_solver_class returned, or "none"
    constructed, \* solver_class(...) was called
    ran,         \* solver.run() was called
    result,      \* "none" | "MEResult"
    err          \* "none" or the error the call raised

dvars == <<args, pc, rho0, li, log, warnings, is_batched, solver_class,
           constructed, ran, result, err>>

VARIABLES
    \* ---- one call of fock
    dims,        \* [int, n, tup]: the dims argument, an int or a tuple
    states,      \* [int, n, tup]: the states argument
    fpc,         \* "call" | "checked" | "done" | "raised"
    ket,         \* the column vector, <<>> until allocated
    ferr         \* "none" | "ValueError" | "IndexError"

fvars == <<dims, states, fpc, ket, ferr>>

vars == <<rvars, dvars, fvars>>

-----------------------------------------------------------------------------
(* Exact complex arithmetic                                                *)

Abs(x) == IF x < 0 THEN -x ELSE x

RECURSIVE Gcd(_, _)
Gcd(a, b) == IF b = 0 THEN a ELSE Gcd(b, a % b)

Gcd3(a, b, c) == Gcd(Gcd(a, b), c)

NaN == <<0, 0, 0>>
Zero == <<0, 0, 1>>
One == <<1, 0, 1>>
ImagI == <<0, 1, 1>>
Half == <<1, 0, 2>>

IsNaN(c) == c[3] = 0

\* c with sign s on the denominator, divided through by g
Reduce(c, s, g) == <<(s * c[1]) \div g, (s * c[2]) \div g, (s * c[3]) \div g>>

\* lowest terms, positive denominator
Norm(c) ==
    IF c[3] = 0 THEN NaN
    ELSE Reduce(c, IF c[3] < 0 THEN -1 ELSE 1,
                Gcd3(Abs(c[1]), Abs(c[2]), Abs(c[3])))

\* a + b over the least common denominator, g the gcd of the denominators
CAddOver(a, b, g) ==
    Norm(<<a[1] * (b[3] \div g) + b[1] * (a[3] \div g),
           a[2] * (b[3] \div g) + b[2] * (a[3] \div g),
           a[3] * (b[3] \div g)>>)

CAdd(a, b) ==
    IF IsNaN(a) \/ IsNaN(b) THEN NaN ELSE CAddOver(a, b, Gcd(a[3], b[3]))

CNeg(a) == <<-a[1], -a[2], a[3]>>

CSub(a, b) == CAdd(a, CNeg(b))

\* a * b, g1 cancelled between a's numerator and b's denominator, g2 between
\* b's numerator and a's denominator
CMulOver(a, b, g1, g2) ==
    Norm(<<(a[1] \div g1) * (b[1] \div g2) - (a[2] \div g1) * (b[2] \div g2),
           (a[1] \div g1) * (b[2] \div g2) + (a[2] \div g1) * (b[1] \div g2),
           (a[3] \div g2) * (b[3] \div g1)>>)

CMul(a, b) ==
    IF IsNaN(a) \/ IsNaN(b) THEN NaN
    ELSE CMulOver(a, b, Gcd3(Abs(a[1]), Abs(a[2]), b[3]),
                        Gcd3(Abs(b[1]), Abs(b[2]), a[3]))

CConj(a) == <<a[1], -a[2], a[3]>>

\* the real part, as a number
CReal(a) == Norm(<<a[1], 0, a[3]>>)

\* a / r for a real r, cancelled the same way
CDivOver(a, r, g1, g2) ==
    Norm(<<(a[1] \div g1) * (r[3] \div g2), (a[2] \div g1) * (r[3] \div g2),
           (a[3] \div g2) * (r[1] \div g1)>>)

\* a / r for a real r; a zero (or NaN) divisor gives NaN
CDivReal(a, r) ==
    IF IsNaN(a) \/ IsNaN(r) \/ r[1] = 0 THEN NaN
    ELSE CDivOver(a, r, Gcd3(Abs(a[1]), Abs(a[2]), Abs(r[1])), Gcd(a[3], r[3]))

\* the integer square root of a perfect square
ISqrt(n) == CHOOSE r \in 0..n : r * r = n

IsSquare(n) == n >= 0 /\ \E r \in 0..n : r * r = n

\* a real rational that is the square of a rational
IsRatSquare(q) == ~IsNaN(q) /\ q[2] = 0 /\ IsSquare(q[1]) /\ IsSquare(q[3])

\* math.sqrt on the squares of rationals
sqrt(q) == <<ISqrt(q[1]), 0, ISqrt(q[3])>>

-----------------------------------------------------------------------------
(* 2 x 2 matrices                                                          *)

Mat(a, b, c, d) == <<<<a, b>>, <<c, d>>>>

ZeroM == Mat(Zero, Zero, Zero, Zero)

MAdd(A, B) ==
    Mat(CAdd(A[1][1], B[1][1]), CAdd(A[1][2], B[1][2]),
        CAdd(A[2][1], B[2][1]), CAdd(A[2][2], B[2][2]))

MScale(c, A) ==
    Mat(CMul(c, A[1][1]), CMul(c, A[1][2]), CMul(c, A[2][1]), CMul(c, A[2][2]))

MNeg(A) == Mat(CNeg(A[1][1]), CNeg(A[1][2]), CNeg(A[2][1]), CNeg(A[2][2]))

MSub(A, B) == MAdd(A, MNeg(B))

\* a*b + c*d
Dot(a, b, c, d) == CAdd(CMul(a, b), CMul(c, d))

\* A @ B
MMul(A, B) ==
    Mat(Dot(A[1][1], B[1][1], A[1][2], B[2][1]),
        Dot(A[1][1], B[1][2], A[1][2], B[2][2]),
        Dot(A[2][1], B[1][1], A[2][2], B[2][1]),
        Dot(A[2][1], B[1][2], A[2][2], B[2][2]))

\* A.adjoint(): the conjugate transpose
adjoint(A) ==
    Mat(CConj(A[1][1]), CConj(A[2][1]), CConj(A[1][2]), CConj(A[2][2]))

\* rho / r, entry by entry
MDivReal(A, r) ==
    Mat(CDivReal(A[1][1], r), CDivReal(A[1][2], r),
        CDivReal(A[2][1], r), CDivReal(A[2][2], r))

\* some entry is not a number
IsNaNM(A) == \E i \in 1..2 : \E j \in 1..2 : IsNaN(A[i][j])

\* torch.eye(n)
Eye == Mat(One, Zero, Zero, One)

\* trace(rho)
trace(A) == CAdd(A[1][1], A[2][2])

\* the adjoint of every operator of a stack
RECURSIVE AdjointAll(_)
AdjointAll(Os) ==
    IF Os = <<>> THEN <<>> ELSE <<adjoint(Head(Os))>> \o AdjointAll(Tail(Os))

\* c * Os for a stack of operators
RECURSIVE ScaleAll(_, _)
ScaleAll(c, Os) ==
    IF Os = <<>> THEN <<>> ELSE <<MScale(c, Head(Os))>> \o ScaleAll(c, Tail(Os))

\* kraus_map(rho, O) = sum_k O_k rho O_k^dagger over the operator axis
RECURSIVE kraus_map(_, _)
kraus_map(r, Os) ==
    IF Os = <<>> THEN ZeroM
    ELSE MAdd(MMul(MMul(Head(Os), r), adjoint(Head(Os))), kraus_map(r, Tail(Os)))

-----------------------------------------------------------------------------
(* MESolver / MERouchon: the operators every step is built from            *)

\* self.H(t): the Hamiltonian evaluated at time tt, H(t) = H0 + t*H1
H(tt) == MAdd(sys.H0, MScale(tt, sys.H1))

\* self.jump_ops
jump_ops == sys.Ls

\* sum_k L_k^dagger L_k
RECURSIVE SumNoJump(_)
SumNoJump(Ls) ==
    IF Ls = <<>> THEN ZeroM
    ELSE MAdd(MMul(adjoint(Head(Ls)), Head(Ls)), SumNoJump(Tail(Ls)))

\* self.sum_no_jump
sum_no_jump == SumNoJump(jump_ops)

\* X - 0.5j * self.sum_no_jump
NonHermitian(X) == MSub(X, MScale(CMul(Half, ImagI), sum_no_jump))

\* MESolver.H_nh(t) = H(t) - (i/2) sum_k L_k^dagger L_k
H_nh(tt) == NonHermitian(H(tt))

\* MERouchon.__init__: self.M1s = sqrt(self.dt) * self.jump_ops
M1s == ScaleAll(sqrt(sdt), jump_ops)

\* MERouchon.__init__: self.M1s_adj = self.M1s.adjoint()
M1s_adj == AdjointAll(M1s)

\* rho / trace(rho)[..., None, None].real
DivByTrace(r) == MDivReal(r, CReal(trace(r)))

-----------------------------------------------------------------------------
(* MERouchon1                                                              *)

Hdag_nh(tt) == adjoint(H_nh(tt))

M0(tt, dt) == MSub(Eye, MScale(CMul(ImagI, dt), H_nh(tt)))

M0_adj(tt, dt) == MAdd(Eye, MScale(CMul(ImagI, dt), Hdag_nh(tt)))

MERouchon1_forward(tt, dt, r) ==
    DivByTrace(MAdd(kraus_map(r, <<M0(tt, dt)>>), kraus_map(r, M1s)))

MERouchon1_backward_augmented(tt, dt, r, p) ==
    [rho |-> DivByTrace(MSub(kraus_map(r, <<M0(tt, CNeg(dt))>>),
                             kraus_map(r, M1s))),
     phi |-> MAdd(kraus_map(p, <<M0_adj(tt, dt)>>), kraus_map(p, M1s_adj))]

-----------------------------------------------------------------------------
(* MERouchon1_5                                                            *)

\* line 93: self.H - 0.5j * self.sum_no_jump, self.H not called at t
MERouchon1_5_H_nh == NonHermitian(selfH)

\* line 96
MERouchon1_5_M0(dt) == MSub(Eye, MScale(CMul(ImagI, dt), MERouchon1_5_H_nh))

\* line 97
MERouchon1_5_Ms(dt) == ScaleAll(sqrt(dt), jump_ops)

\* line 100, for the M0 of line 96
NormalizationOf(M0_, dt) ==
    MAdd(MMul(adjoint(M0_), M0_), MScale(dt, sum_no_jump))

MERouchon1_5_S(dt) == NormalizationOf(MERouchon1_5_M0(dt), dt)

\* the matrices whose inverse square root is exact here: diagonal, with
\* squares of positive rationals on the diagonal
HasInvSqrtm(S) ==
    /\ S[1][2] = Zero /\ S[2][1] = Zero
    /\ IsRatSquare(S[1][1]) /\ S[1][1][1] > 0
    /\ IsRatSquare(S[2][2]) /\ S[2][2][1] > 0

\* inv_sqrtm(S) = S^(-1/2)
inv_sqrtm(S) ==
    Mat(<<ISqrt(S[1][1][3]), 0, ISqrt(S[1][1][1])>>, Zero,
        Zero, <<ISqrt(S[2][2][3]), 0, ISqrt(S[2][2][1])>>)

\* line 106, on the rho of line 105
MERouchon1_5_apply(r, M0_, Ms_) ==
    MAdd(kraus_map(r, <<M0_>>), kraus_map(r, Ms_))

\* lines 100-106, for the M0 of line 96
MERouchon1_5_normalized(dt, r, M0_) ==
    MERouchon1_5_apply(kraus_map(r, <<inv_sqrtm(NormalizationOf(M0_, dt))>>),
                       M0_, MERouchon1_5_Ms(dt))

MERouchon1_5_forward(tt, dt, r) ==
    MERouchon1_5_normalized(dt, r, MERouchon1_5_M0(dt))

-----------------------------------------------------------------------------
(* MERouchon2                                                              *)

\* lines 134 and 154: self.H(t) - 0.5j * self.sum_no_jump
MERouchon2_H_nh(tt) == NonHermitian(H(tt))

\* I + a * X - 0.5 * b * X @ X
SecondOrder(X, a, b) ==
    MSub(MAdd(Eye, MScale(a, X)), MScale(CMul(Half, b), MMul(X, X)))

\* 0.5 * c * (L @ M + M @ L) for every operator L of the stack
RECURSIVE Symmetrized(_, _, _)
Symmetrized(c, Ls, M) ==
    IF Ls = <<>> THEN <<>>
    ELSE <<MScale(CMul(Half, c), MAdd(MMul(Head(Ls), M), MMul(M, Head(Ls))))>>
         \o Symmetrized(c, Tail(Ls), M)

\* line 137: M0 = I - 1j*dt*H_nh - 0.5 * self.dt**2 * H_nh @ H_nh
MERouchon2_forward_M0(tt, dt) ==
    SecondOrder(MERouchon2_H_nh(tt), CNeg(CMul(ImagI, dt)), CMul(sdt, sdt))

\* line 139: M1s = 0.5 * sqrt(dt) * (jump_ops @ M0 + M0 @ jump_ops)
MERouchon2_forward_M1s(tt, dt) ==
    Symmetrized(sqrt(dt), jump_ops, MERouchon2_forward_M0(tt, dt))

\* O0(x) + s * tmp + 0.5 * Os(tmp), tmp the first-order term
MERouchon2_sum(x, O0, Os, s, tmp) ==
    MAdd(MAdd(kraus_map(x, <<O0>>), MScale(s, tmp)),
         MScale(Half, kraus_map(tmp, Os)))

\* tmp = kraus_map(x, Os); then the sum above
MERouchon2_apply(x, O0, Os, s) ==
    MERouchon2_sum(x, O0, Os, s, kraus_map(x, Os))

\* lines 139-144 for the M0 of line 137; lines 159-161 for that of line 158
MERouchon2_step(x, c, Ls, O0, s) ==
    MERouchon2_apply(x, O0, Symmetrized(c, Ls, O0), s)

\* lines 137-144 without line 147: the division by the trace left out
MERouchon2_forward_unnormalized(tt, dt, r) ==
    MERouchon2_step(r, sqrt(dt), jump_ops, MERouchon2_forward_M0(tt, dt), One)

MERouchon2_forward(tt, dt, r) ==
    DivByTrace(MERouchon2_step(r, sqrt(dt), jump_ops,
                               MERouchon2_forward_M0(tt, dt), One))

\* line 158: M0 = I + 1j*dt*H_nh - 0.5 * dt**2 * H_nh @ H_nh
MERouchon2_backward_M0(tt, dt) ==
    SecondOrder(MERouchon2_H_nh(tt), CMul(ImagI, dt), CMul(dt, dt))

\* line 159
MERouchon2_backward_M1s(tt, dt) ==
    Symmetrized(sqrt(dt), jump_ops, MERouchon2_backward_M0(tt, dt))

\* line 165: M0_adj = I + 1j*dt*Hdag_nh - 0.5 * dt**2 * Hdag_nh @ Hdag_nh
MERouchon2_M0_adj(tt, dt) ==
    SecondOrder(adjoint(MERouchon2_H_nh(tt)), CMul(ImagI, dt), CMul(dt, dt))

\* lines 166-170
MERouchon2_M1s_adj(tt, dt) ==
    Symmetrized(sqrt(dt), AdjointAll(jump_ops), MERouchon2_M0_adj(tt, dt))

MERouchon2_backward_augmented(tt, dt, r, p) ==
    [rho |-> DivByTrace(MERouchon2_step(r, sqrt(dt), jump_ops,
                                        MERouchon2_backward_M0(tt, dt),
                                        CNeg(One))),
     phi |-> MERouchon2_step(p, sqrt(dt), AdjointAll(jump_ops),
                             MERouchon2_M0_adj(tt, dt), One)]

-----------------------------------------------------------------------------
(* mesolve: the arguments of a call                                        *)

\* x.ndim of an array of shape x
ndim(x) == Len(x)

HShapes == {<<2, 2>>, <<3, 2, 2>>, <<2, 3>>}

JumpLists ==
    { <<>>,
      <<<<2, 2>>>>,
      <<<<2, 2>>, <<3, 2, 2>>>>,
      <<<<2, 2>>, <<2, 3>>>> }

Rho0Shapes == {<<2, 1>>, <<2, 2>>, <<3, 2, 1>>, <<2, 3>>}

TSaves == {<<0, 1, 2>>, <<0, 2, 1>>, <<1, 1>>}

ExpOps ==
    { [none |-> TRUE, shape |-> <<>>],
      [none |-> FALSE, shape |-> <<2, 2, 2>>],
      [none |-> FALSE, shape |-> <<2, 2>>] }

Gradients == {"None", "Autograd"}

\* the solver tags of the design, and one outside it
SolverTags ==
    {"Euler", "Dopri5", "Dopri8", "Tsit5", "Propagator",
     "Rouchon1", "Rouchon1_5", "Rouchon2"}

\* a solver configuration: its tag and the gradient modes it supports; the
\* order-1.5 method has no backward step and supports none
SolverConfigs ==
    { [tag |-> g, grads |-> s] :
        g \in (SolverTags \ {"Rouchon1_5"}) \cup {"Unknown"},
        s \in {{}, {"Autograd"}} }
    \cup {[tag |-> "Rouchon1_5", grads |-> {}]}

Args ==
    [H : HShapes, jump_ops : JumpLists, rho0 : Rho0Shapes, tsave : TSaves,
     exp_ops : ExpOps, solver : SolverConfigs, gradient : Gradients]

-----------------------------------------------------------------------------
(* mesolve: the collaborators it calls                                     *)

\* _checks.check_shape: x has one of the shapes
has_shape(x, shape) ==
    CASE shape = "(?, n, n)" ->
           ndim(x) \in {2, 3} /\ x[ndim(x)] = x[ndim(x) - 1]
      [] shape = "(?, n, 1)" ->
           ndim(x) \in {2, 3} /\ x[ndim(x)] = 1
      [] shape = "(N, n, n)" ->
           ndim(x) = 3 /\ x[ndim(x)] = x[ndim(x) - 1]

check_shape(x, shapes) == \E shape \in shapes : has_shape(x, shape)

\* _checks.check_times: a 1-D array of strictly increasing times
check_times(x) == \A j \in 1..(Len(x) - 1) : x[j] < x[j + 1]

\* utils.todm: a ket of shape (..., n, 1) becomes its projector (..., n, n)
todm(x) ==
    IF x[ndim(x)] = 1
    THEN [j \in 1..ndim(x) |-> IF j = ndim(x) THEN x[ndim(x) - 1] ELSE x[j]]
    ELSE x

\* the registry of _mesolve
solvers ==
    [Euler |-> "MEEuler", Dopri5 |-> "MEDopri5", Dopri8 |-> "MEDopri8",
     Tsit5 |-> "METsit5", Propagator |-> "MEPropagator"]

\* core._utils.get_solver_class: the registered class, "none" when the tag has
\* none (the caller then raises the unsupported-solver error)
get_solver_class(registry, solver) ==
    IF solver.tag \in DOMAIN registry THEN registry[solver.tag] ELSE "none"

\* Solver.assert_supports_gradient
supports_gradient(solver, gradient) ==
    gradient = "None" \/ gradient \in solver.grads

\* a variant of the tuple that flags exp_ops by its rank as well
IsBatchedWithExpOps(H_, jump_ops_, rho0_) ==
    [H |-> ndim(H_) > 2,
     jump_ops |-> [j \in 1..Len(jump_ops_) |-> ndim(jump_ops_[j]) > 2],
     rho0 |-> ndim(rho0_) > 2,
     tsave |-> FALSE,
     exp_ops |-> ndim(args.exp_ops.shape) > 2,
     solver |-> FALSE,
     gradient |-> FALSE,
     options |-> FALSE]

\* the tuple is_batched of _vmap_mesolve, by parameter
IsBatched(H_, jump_ops_, rho0_) ==
    [H |-> ndim(H_) > 2,
     jump_ops |-> [j \in 1..Len(jump_ops_) |-> ndim(jump_ops_[j]) > 2],
     rho0 |-> ndim(rho0_) > 2,
     tsave |-> FALSE,
     exp_ops |-> FALSE,
     solver |-> FALSE,
     gradient |-> FALSE,
     options |-> FALSE]

NotBatched ==
    [H |-> FALSE, jump_ops |-> <<>>, rho0 |-> FALSE, tsave |-> FALSE,
     exp_ops |-> FALSE, solver |-> FALSE, gradient |-> FALSE, options |-> FALSE]

-----------------------------------------------------------------------------
(* mesolve: one call, statement by statement                               *)

\* the call goes on to statement next, having executed statement stmt
Goto(stmt, next) ==
    /\ pc' = next
    /\ log' = Append(log, stmt)
    /\ err' = err

\* the call ends raising e at statement stmt
Raise(stmt, e) ==
    /\ pc' = "raised"
    /\ log' = Append(log, stmt)
    /\ err' = e

\* lines 96-100: _astimearray, jnp.asarray
Convert ==
    /\ pc = "convert"
    /\ rho0' = args.rho0
    /\ Goto("convert", "check_H")
    /\ UNCHANGED <<args, li, warnings, is_batched, solver_class, constructed,
                   ran, result>>
    /\ UNCHANGED <<rvars, fvars>>

\* line 183
CheckH ==
    /\ pc = "check_H"
    /\ IF check_shape(args.H, {"(?, n, n)"})
       THEN Goto("check_H", "check_empty")
       ELSE Raise("check_H", "ValueError:H")
    /\ UNCHANGED <<args, rho0, li, warnings, is_batched, solver_class,
                   constructed, ran, result>>
    /\ UNCHANGED <<rvars, fvars>>

\* a variant of lines 186-190 that raises on an empty list
WarnEmptyRaises ==
    /\ pc = "check_empty"
    /\ IF Len(args.jump_ops) = 0
       THEN Raise("check_empty", "ValueError:jump_ops")
       ELSE Goto("check_empty", "check_L")
    /\ li' = 1
    /\ UNCHANGED <<args, rho0, warnings, is_batched, solver_class, constructed,
                   ran, result>>
    /\ UNCHANGED <<rvars, fvars>>

\* lines 186-190: an empty list is warned about, not raised
WarnEmpty ==
    /\ pc = "check_empty"
    /\ warnings' = IF Len(args.jump_ops) = 0 THEN warnings + 1 ELSE warnings
    /\ li' = 1
    /\ Goto("check_empty", "check_L")
    /\ UNCHANGED <<args, rho0, is_batched, solver_class, constructed, ran,
                   result>>
    /\ UNCHANGED <<rvars, fvars>>

\* lines 192-193: one pass of the loop over jump_ops, or its end
CheckL ==
    /\ pc = "check_L"
    /\ IF li > Len(args.jump_ops)
       THEN li' = li /\ Goto("check_jump_ops", "check_rho0")
       ELSE IF check_shape(args.jump_ops[li], {"(?, n, n)"})
            THEN li' = li + 1 /\ UNCHANGED <<pc, log, err>>
            ELSE li' = li /\ Raise("check_jump_ops", "ValueError:jump_ops")
    /\ UNCHANGED <<args, rho0, warnings, is_batched, solver_class, constructed,
                   ran, result>>
    /\ UNCHANGED <<rvars, fvars>>

\* line 196
CheckRho0 ==
    /\ pc = "check_rho0"
    /\ IF check_shape(rho0, {"(?, n, 1)", "(?, n, n)"})
       THEN Goto("check_rho0", "check_exp_ops")
       ELSE Raise("check_rho0", "ValueError:rho0")
    /\ UNCHANGED <<args, rho0, li, warnings, is_batched, solver_class,
                   constructed, ran, result>>
    /\ UNCHANGED <<rvars, fvars>>

\* lines 199-200
CheckExpOps ==
    /\ pc = "check_exp_ops"
    /\ IF args.exp_ops.none \/ check_shape(args.exp_ops.shape, {"(N, n, n)"})
       THEN Goto("check_exp_ops", "check_times")
       ELSE Raise("check_exp_ops", "ValueError:exp_ops")
    /\ UNCHANGED <<args, rho0, li, warnings, is_batched, solver_class,
                   constructed, ran, result>>
    /\ UNCHANGED <<rvars, fvars>>

\* a variant that goes on whatever check_times finds
CheckTimesIgnored ==
    /\ pc = "check_times"
    /\ Goto("check_times", "todm")
    /\ UNCHANGED <<args, rho0, li, warnings, is_batched, solver_class,
                   constructed, ran, result>>
    /\ UNCHANGED <<rvars, fvars>>

\* line 104
CheckTimes ==
    /\ pc = "check_times"
    /\ IF check_times(args.tsave)
       THEN Goto("check_times", "todm")
       ELSE Raise("check_times", "ValueError:tsave")
    /\ UNCHANGED <<args, rho0, li, warnings, is_batched, solver_class,
                   constructed, ran, result>>
    /\ UNCHANGED <<rvars, fvars>>

\* line 107
Todm ==
    /\ pc = "todm"
    /\ rho0' = todm(rho0)
    /\ Goto("todm", "vmap")
    /\ UNCHANGED <<args, li, warnings, is_batched, solver_class, constructed,
                   ran, result>>
    /\ UNCHANGED <<rvars, fvars>>

\* lines 127-143: _vmap_mesolve builds is_batched and calls the vectorized _mesolve
VmapMesolve ==
    /\ pc = "vmap"
    /\ is_batched' = IsBatched(args.H, args.jump_ops, rho0)
    /\ Goto("vmap", "select")
    /\ UNCHANGED <<args, rho0, li, warnings, solver_class, constructed, ran,
                   result>>
    /\ UNCHANGED <<rvars, fvars>>

\* lines 157-164
SelectSolver ==
    /\ pc = "select"
    /\ solver_class' = get_solver_class(solvers, args.solver)
    /\ IF get_solver_class(solvers, args.solver) # "none"
       THEN Goto("select", "assert_gradient")
       ELSE Raise("select", "UnsupportedSolver")
    /\ UNCHANGED <<args, rho0, li, warnings, is_batched, constructed, ran,
                   result>>
    /\ UNCHANGED <<rvars, fvars>>

\* line 167
AssertGradient ==
    /\ pc = "assert_gradient"
    /\ IF supports_gradient(args.solver, args.gradient)
       THEN Goto("assert_gradient", "init")
       ELSE Raise("assert_gradient", "UnsupportedGradient")
    /\ UNCHANGED <<args, rho0, li, warnings, is_batched, solver_class,
                   constructed, ran, result>>
    /\ UNCHANGED <<rvars, fvars>>

\* line 170
InitSolver ==
    /\ pc = "init"
    /\ constructed' = TRUE
    /\ Goto("init", "run")
    /\ UNCHANGED <<args, rho0, li, warnings, is_batched, solver_class, ran,
                   result>>
    /\ UNCHANGED <<rvars, fvars>>

\* line 173: the integration
Run ==
    /\ pc = "run"
    /\ ran' = TRUE
    /\ Goto("run", "return")
    /\ UNCHANGED <<args, rho0, li, warnings, is_batched, solver_class,
                   constructed, result>>
    /\ UNCHANGED <<rvars, fvars>>

\* line 176
Return ==
    /\ pc = "return"
    /\ result' = "MEResult"
    /\ Goto("return", "done")
    /\ UNCHANGED <<args, rho0, li, warnings, is_batched, solver_class,
                   constructed, ran>>
    /\ UNCHANGED <<rvars, fvars>>

-----------------------------------------------------------------------------
(* fock(dims, states)                                                      *)

\* longest tuple passed as dims or states
MaxLen == 2

\* largest dimension of one mode
MaxDim == 3

Tuples(S) == UNION {[1..n -> S] : n \in 0..MaxLen}

IntArg(n) == [int |-> TRUE, n |-> n, tup |-> <<>>]

TupleArg(x) == [int |-> FALSE, n |-> 0, tup |-> x]

DimsArgs == {IntArg(n) : n \in 1..MaxDim} \cup {TupleArg(x) : x \in Tuples(1..MaxDim)}

StatesArgs == {IntArg(n) : n \in 0..MaxDim} \cup {TupleArg(x) : x \in Tuples(0..MaxDim)}

\* lines 39-40: (x,) if isinstance(x, int) else x
AsTuple(x) == IF x.int THEN <<x.n>> ELSE x.tup

\* math.prod
RECURSIVE prod(_)
prod(ds) == IF ds = <<>> THEN 1 ELSE Head(ds) * prod(Tail(ds))

\* a variant of the loop that adds the state without the radix
RECURSIVE FockLoopNoRadix(_, _, _)
FockLoopNoRadix(ds, ss, n) ==
    IF ds = <<>> \/ ss = <<>> THEN n
    ELSE FockLoopNoRadix(Tail(ds), Tail(ss), n + Head(ss))

\* lines 48-50: for dim, state in zip(dims, states): n = dim * n + state
RECURSIVE FockLoop(_, _, _)
FockLoop(ds, ss, n) ==
    IF ds = <<>> \/ ss = <<>> THEN n
    ELSE FockLoop(Tail(ds), Tail(ss), Head(ds) * n + Head(ss))

\* line 51: torch.zeros(prod(dims), 1)
zeros(n) == [j \in 1..n |-> 0]

\* a variant of the check that raises only when dims is the shorter
FockCheckShorter ==
    /\ fpc = "call"
    /\ IF Len(AsTuple(dims)) < Len(AsTuple(states))
       THEN fpc' = "raised" /\ ferr' = "ValueError"
       ELSE fpc' = "checked" /\ ferr' = ferr
    /\ UNCHANGED <<dims, states, ket>>
    /\ UNCHANGED <<rvars, dvars>>

\* lines 39-45
FockCheck ==
    /\ fpc = "call"
    /\ IF Len(AsTuple(dims)) # Len(AsTuple(states))
       THEN fpc' = "raised" /\ ferr' = "ValueError"
       ELSE fpc' = "checked" /\ ferr' = ferr
    /\ UNCHANGED <<dims, states, ket>>
    /\ UNCHANGED <<rvars, dvars>>

\* lines 48-53; ket[n] outside the vector raises IndexError
FockBuild ==
    /\ fpc = "checked"
    /\ LET n == FockLoop(AsTuple(dims), AsTuple(states), 0)
           size == prod(AsTuple(dims))
       IN  IF n < size
           THEN /\ ket' = [zeros(size) EXCEPT ![n + 1] = 1]
                /\ fpc' = "done"
                /\ ferr' = ferr
           ELSE /\ ket' = zeros(size)
                /\ fpc' = "raised"
                /\ ferr' = "IndexError"
    /\ UNCHANGED <<dims, states>>
    /\ UNCHANGED <<rvars, dvars>>

-----------------------------------------------------------------------------
(* The solver instance and its stepping loop                               *)

\* steps (forward and backward together) one run of the model makes
MaxSteps == 2

R(n) == <<n, 0, 1>>

\* |0><0|
P0 == Mat(One, Zero, Zero, Zero)

\* the lowering operator |0><1| and the raising operator |1><0|
E12 == Mat(Zero, One, Zero, Zero)

E21 == Mat(Zero, Zero, One, Zero)

SigX == Mat(Zero, One, One, Zero)

SigY == Mat(Zero, <<0, -1, 1>>, ImagI, Zero)

SigZ == Mat(One, Zero, Zero, <<-1, 0, 1>>)

\* the problems solved: a Hamiltonian H0 + t*H1 and a list of jump operators
Systems ==
    { [H0 |-> P0, H1 |-> ZeroM, Ls |-> <<P0, P0>>],
      [H0 |-> MScale(R(2), P0), H1 |-> ZeroM, Ls |-> <<MScale(R(2), E21)>>],
      [H0 |-> P0, H1 |-> ZeroM, Ls |-> <<MScale(R(2), E21)>>],
      [H0 |-> SigX, H1 |-> SigZ, Ls |-> <<MScale(<<1, 1, 1>>, E12)>>],
      [H0 |-> SigY, H1 |-> ZeroM, Ls |-> <<>>],
      [H0 |-> ZeroM, H1 |-> MScale(<<3, 0, 4>>, P0), Ls |-> <<>>] }

\* step sizes, of options.dt and of a step's dt argument
DTs == {One, R(4)}

\* times at which the tensor held in self.H may have been taken
CtorTimes == {Zero, One}

\* initial density matrices: Hermitian, positive, of trace 1
Rho0s ==
    { P0,
      Mat(Half, Zero, Zero, Half),
      Mat(Half, Half, Half, Half),
      Mat(Half, <<0, -1, 2>>, <<0, 1, 2>>, Half) }

\* the co-state the backward pass starts from
Phi0 == Mat(Zero, Zero, Zero, One)

Methods == {"Rouchon1", "Rouchon1_5", "Rouchon2"}

Call(op, dt) == [op |-> op, t |-> t, dt |-> dt, rho |-> rho, phi |-> phi]

\* the exact arithmetic is carried in 32-bit integers: a run goes on while the
\* numerators and denominators of its state stay within MaxEntry
MaxEntry == 64

FitsC(c) == Abs(c[1]) <= MaxEntry /\ Abs(c[2]) <= MaxEntry /\ c[3] <= MaxEntry

Fits(A) == \A i \in 1..2 : \A j \in 1..2 : FitsC(A[i][j])

CanStep ==
    /\ rerr = "none"
    /\ nfwd + nbwd < MaxSteps
    /\ Fits(rho) /\ Fits(phi)

\* one pass of the forward loop of an MERouchon1
Rouchon1Forward ==
    /\ method = "Rouchon1" /\ CanStep /\ nbwd = 0
    /\ \E dt \in DTs :
         /\ rho' = MERouchon1_forward(t, dt, rho)
         /\ last' = Call("forward", dt)
         /\ t' = CAdd(t, dt)
    /\ nfwd' = nfwd + 1
    /\ UNCHANGED <<method, sys, sdt, selfH, phi, nbwd, rerr>>
    /\ UNCHANGED <<dvars, fvars>>

Rouchon1_5Forward ==
    /\ method = "Rouchon1_5" /\ CanStep /\ nbwd = 0
    /\ \E dt \in DTs :
         /\ HasInvSqrtm(MERouchon1_5_S(dt))
         /\ rho' = MERouchon1_5_forward(t, dt, rho)
         /\ last' = Call("forward", dt)
         /\ t' = CAdd(t, dt)
    /\ nfwd' = nfwd + 1
    /\ UNCHANGED <<method, sys, sdt, selfH, phi, nbwd, rerr>>
    /\ UNCHANGED <<dvars, fvars>>

Rouchon2Forward ==
    /\ method = "Rouchon2" /\ CanStep /\ nbwd = 0
    /\ \E dt \in DTs :
         /\ rho' = MERouchon2_forward(t, dt, rho)
         /\ last' = Call("forward", dt)
         /\ t' = CAdd(t, dt)
    /\ nfwd' = nfwd + 1
    /\ UNCHANGED <<method, sys, sdt, selfH, phi, nbwd, rerr>>
    /\ UNCHANGED <<dvars, fvars>>

\* one pass of the backward loop, from t to t - dt
Rouchon1Backward ==
    /\ method = "Rouchon1" /\ CanStep /\ nfwd > nbwd
    /\ \E dt \in DTs :
         /\ \E out \in {MERouchon1_backward_augmented(t, dt, rho, phi)} :
              rho' = out.rho /\ phi' = out.phi
         /\ last' = Call("backward", dt)
         /\ t' = CSub(t, dt)
    /\ nbwd' = nbwd + 1
    /\ UNCHANGED <<method, sys, sdt, selfH, nfwd, rerr>>
    /\ UNCHANGED <<dvars, fvars>>

\* MERouchon1_5.backward_augmented: raise NotImplementedError
Rouchon1_5Backward ==
    /\ method = "Rouchon1_5" /\ CanStep /\ nfwd > nbwd
    /\ rerr' = "NotImplementedError"
    /\ UNCHANGED <<method, sys, sdt, selfH, rho, phi, t, nfwd, nbwd, last>>
    /\ UNCHANGED <<dvars, fvars>>

Rouchon2Backward ==
    /\ method = "Rouchon2" /\ CanStep /\ nfwd > nbwd
    /\ \E dt \in DTs :
         /\ \E out \in {MERouchon2_backward_augmented(t, dt, rho, phi)} :
              rho' = out.rho /\ phi' = out.phi
         /\ last' = Call("backward", dt)
         /\ t' = CSub(t, dt)
    /\ nbwd' = nbwd + 1
    /\ UNCHANGED <<method, sys, sdt, selfH, nfwd, rerr>>
    /\ UNCHANGED <<dvars, fvars>>

-----------------------------------------------------------------------------
(* The three specifications                                                *)

RouchonIdle ==
    /\ method = "none"
    /\ sys = [H0 |-> ZeroM, H1 |-> ZeroM, Ls |-> <<>>]
    /\ sdt = One
    /\ selfH = ZeroM
    /\ rho = P0
    /\ phi = Phi0
    /\ t = Zero
    /\ nfwd = 0
    /\ nbwd = 0
    /\ last = [op |-> "none", t |-> Zero, dt |-> Zero, rho |-> P0, phi |-> Phi0]
    /\ rerr = "none"

DriverStart ==
    /\ rho0 = <<>>
    /\ li = 0
    /\ log = <<>>
    /\ warnings = 0
    /\ is_batched = NotBatched
    /\ solver_class = "none"
    /\ constructed = FALSE
    /\ ran = FALSE
    /\ result = "none"
    /\ err = "none"

DriverIdle ==
    /\ args = [H |-> <<2, 2>>, jump_ops |-> <<>>, rho0 |-> <<2, 2>>,
               tsave |-> <<0, 1, 2>>, exp_ops |-> [none |-> TRUE, shape |-> <<>>],
               solver |-> [tag |-> "Tsit5", grads |-> {}], gradient |-> "None"]
    /\ pc = "idle"
    /\ DriverStart

FockIdle ==
    /\ dims = IntArg(1)
    /\ states = IntArg(0)
    /\ fpc = "idle"
    /\ ket = <<>>
    /\ ferr = "none"

\* a call of mesolve with any of the arguments
Init ==
    /\ args \in Args
    /\ pc = "convert"
    /\ DriverStart
    /\ RouchonIdle
    /\ FockIdle

Next ==
    \/ Convert
    \/ CheckH
    \/ WarnEmpty
    \/ CheckL
    \/ CheckRho0
    \/ CheckExpOps
    \/ CheckTimes
    \/ Todm
    \/ VmapMesolve
    \/ SelectSolver
    \/ AssertGradient
    \/ InitSolver
    \/ Run
    \/ Return

Spec == Init /\ [][Next]_vars

\* a call of fock with any of the arguments
InitFock ==
    /\ dims \in DimsArgs
    /\ states \in StatesArgs
    /\ fpc = "call"
    /\ ket = <<>>
    /\ ferr = "none"
    /\ RouchonIdle
    /\ DriverIdle

NextFock ==
    \/ FockCheck
    \/ FockBuild

SpecFock == InitFock /\ [][NextFock]_vars

\* a solver instance of any of the three classes, on any of the problems
InitRouchon ==
    /\ method \in Methods
    /\ sys \in Systems
    /\ sdt \in DTs
    /\ selfH \in {MAdd(sys.H0, MScale(tc, sys.H1)) : tc \in CtorTimes}
    /\ rho \in Rho0s
    /\ phi = Phi0
    /\ t = Zero
    /\ nfwd = 0
    /\ nbwd = 0
    /\ last = [op |-> "none", t |-> Zero, dt |-> Zero, rho |-> rho, phi |-> phi]
    /\ rerr = "none"
    /\ DriverIdle
    /\ FockIdle

NextRouchon ==
    \/ Rouchon1Forward
    \/ Rouchon1_5Forward
    \/ Rouchon2Forward
    \/ Rouchon1Backward
    \/ Rouchon1_5Backward
    \/ Rouchon2Backward

SpecRouchon == InitRouchon /\ [][NextRouchon]_vars

-----------------------------------------------------------------------------
(* Properties of mesolve                                                   *)

\* statement stmt of the call has been executed
Executed(stmt) == \E k \in 1..Len(log) : log[k] = stmt

\* the call has ended, by a return or by an error
Terminated == pc \in {"done", "raised"}

\* the error of the first argument check that a fails, "none" if none does
CheckFailure(a) ==
    IF ~check_shape(a.H, {"(?, n, n)"}) THEN "ValueError:H"
    ELSE IF \E j \in 1..Len(a.jump_ops) :
              ~check_shape(a.jump_ops[j], {"(?, n, n)"})
    THEN "ValueError:jump_ops"
    ELSE IF ~check_shape(a.rho0, {"(?, n, 1)", "(?, n, n)"}) THEN "ValueError:rho0"
    ELSE IF ~a.exp_ops.none /\ ~check_shape(a.exp_ops.shape, {"(N, n, n)"})
    THEN "ValueError:exp_ops"
    ELSE IF ~check_times(a.tsave) THEN "ValueError:tsave"
    ELSE "none"

ArgsValid == CheckFailure(args) = "none"

CheckErrors ==
    {"ValueError:H", "ValueError:jump_ops", "ValueError:rho0",
     "ValueError:exp_ops", "ValueError:tsave"}

\* C1: once solver selection has run, each of the eight solver tags Euler,
\* Dopri5, Dopri8, Tsit5, Propagator, Rouchon1, Rouchon1.5 and Rouchon2 has
\* resolved to an integrator class, and the unsupported-solver error has been
\* raised exactly for a tag outside that set.
C1_SelectorResolvesEveryTag ==
    Executed("select") =>
        IF args.solver.tag \in SolverTags
        THEN solver_class # "none" /\ err # "UnsupportedSolver"
        ELSE solver_class = "none" /\ err = "UnsupportedSolver"

\* C2: a call with valid arguments that selects the order-1.5 Rouchon method
\* together with a gradient mode ends in the unsupported-gradient error, with
\* no integrator constructed and no step run.
C2_Rouchon1_5GradientUnsupported ==
    (/\ Terminated
     /\ ArgsValid
     /\ args.solver.tag = "Rouchon1_5"
     /\ args.gradient # "None")
    => (err = "UnsupportedGradient" /\ ~constructed /\ ~ran)

\* C3: every argument check (H, each jump operator, rho0, exp_ops, tsave) has
\* run and passed before the ket-to-density-matrix conversion, solver
\* selection, construction or integration happens; a call whose arguments fail
\* a check ends in that check's error, with no conversion, no solver selected
\* or constructed, no integration and no result.
C3_ChecksPrecedeEverything ==
    /\ (\/ Executed("todm") \/ Executed("vmap") \/ Executed("select")
        \/ solver_class # "none" \/ constructed \/ ran \/ result # "none")
       => (/\ ArgsValid
           /\ Executed("check_H") /\ Executed("check_jump_ops")
           /\ Executed("check_rho0") /\ Executed("check_exp_ops")
           /\ Executed("check_times"))
    /\ (Terminated /\ ~ArgsValid) => err = CheckFailure(args)
    /\ err \in CheckErrors
       => (/\ pc = "raised"
           /\ ~Executed("todm") /\ ~Executed("select")
           /\ solver_class = "none" /\ ~constructed /\ ~ran
           /\ result = "none")

\* a call with non-increasing save times has ended in the save-time error
C3_Witness ==
    /\ pc = "raised"
    /\ err = "ValueError:tsave"
    /\ args.tsave = <<0, 2, 1>>
    /\ Executed("check_exp_ops")

\* C4: an empty jump-operator list is never a failure: the check of the list
\* emits exactly one warning for an empty list and none for a non-empty one,
\* no jump-operator error is raised for it, and with its other arguments valid
\* the call goes through the remaining checks to the batching layer and the
\* solver selection as a call with jump operators does.
C4_EmptyJumpOpsWarnsOnce ==
    /\ warnings =
         IF Executed("check_empty") /\ args.jump_ops = <<>> THEN 1 ELSE 0
    /\ args.jump_ops = <<>> => err # "ValueError:jump_ops"
    /\ (args.jump_ops = <<>> /\ ArgsValid /\ Terminated)
       => (/\ Executed("check_jump_ops") /\ Executed("check_rho0")
           /\ Executed("check_exp_ops") /\ Executed("check_times")
           /\ Executed("vmap") /\ Executed("select")
           /\ (solver_class # "none" /\ supports_gradient(args.solver, args.gradient)
               => ran /\ result = "MEResult"))

\* a call with no jump operators has warned once and returned its result
C4_Witness ==
    /\ args.jump_ops = <<>>
    /\ warnings = 1
    /\ ran
    /\ result = "MEResult"

\* C6: once the batching layer has run, H is flagged iff its rank exceeds 2,
\* each jump operator iff its own rank exceeds 2, rho0 iff its rank after the
\* ket-to-density-matrix conversion exceeds 2, and tsave, exp_ops, solver,
\* gradient and options are not flagged.
C6_BatchedFlagsFollowRank ==
    Executed("vmap") =>
        /\ is_batched.H = (ndim(args.H) > 2)
        /\ Len(is_batched.jump_ops) = Len(args.jump_ops)
        /\ \A j \in 1..Len(args.jump_ops) :
             is_batched.jump_ops[j] = (ndim(args.jump_ops[j]) > 2)
        /\ is_batched.rho0 = (ndim(todm(args.rho0)) > 2)
        /\ ~is_batched.tsave /\ ~is_batched.exp_ops /\ ~is_batched.solver
        /\ ~is_batched.gradient /\ ~is_batched.options

\* a call with a batched H, a batched ket and exp_ops of rank 3 has flagged
\* H and rho0, one of two jump operators, and not exp_ops
C6_Witness ==
    /\ Executed("vmap")
    /\ args.H = <<3, 2, 2>>
    /\ args.rho0 = <<3, 2, 1>>
    /\ args.jump_ops = <<<<2, 2>>, <<3, 2, 2>>>>
    /\ args.exp_ops.shape = <<2, 2, 2>>
    /\ is_batched.H /\ is_batched.rho0
    /\ is_batched.jump_ops = <<FALSE, TRUE>>
    /\ ~is_batched.exp_ops

-----------------------------------------------------------------------------
(* Properties of fock                                                      *)

\* 0 <= states[i] < dims[i] for tuples of one length
InRange(ds, ss) ==
    /\ Len(ds) = Len(ss)
    /\ \A k \in 1..Len(ds) : 0 <= ss[k] /\ ss[k] < ds[k]

\* the product of ds[k+1..]
RECURSIVE Weight(_, _)
Weight(ds, k) == IF k >= Len(ds) THEN 1 ELSE ds[k + 1] * Weight(ds, k + 1)

\* the mixed-radix index as a sum: states[k] weighted by the dims after k
RECURSIVE MixedRadix(_, _, _)
MixedRadix(ds, ss, k) ==
    IF k > Len(ds) THEN 0 ELSE ss[k] * Weight(ds, k) + MixedRadix(ds, ss, k + 1)

\* C7: once the length check has run, ValueError has been raised iff dims and
\* states (an integer wrapped into a 1-tuple) differ in length, and it was
\* raised with no state vector allocated.
C7_LengthMismatchRaisesValueError ==
    fpc # "call" =>
        /\ (ferr = "ValueError") <=> (Len(AsTuple(dims)) # Len(AsTuple(states)))
        /\ ferr = "ValueError" => (fpc = "raised" /\ ket = <<>>)

\* an integer dims against a pair of states has raised
C7_Witness ==
    /\ fpc = "raised"
    /\ ferr = "ValueError"
    /\ dims.int /\ ~states.int
    /\ Len(states.tup) = 2

\* C8: for dims and states of equal length with 0 <= states[i] < dims[i], fock
\* returns a vector of length prod(dims) that is 0 everywhere but for a single
\* 1 at the mixed-radix index of states; the index lies in [0, prod(dims)),
\* distinct states give distinct indices, fock(3, 1) has its 1 at index 1 and
\* fock((3, 2), (1, 0)) at index 2.
C8_FockIsOneHotAtMixedRadixIndex ==
    LET ds == AsTuple(dims)
        ss == AsTuple(states)
        n == MixedRadix(ds, ss, 1)
    IN  /\ (fpc \in {"done", "raised"} /\ InRange(ds, ss))
           => (/\ fpc = "done" /\ ferr = "none"
               /\ 0 <= n /\ n < prod(ds)
               /\ Len(ket) = prod(ds)
               /\ \A k \in 1..Len(ket) : ket[k] = (IF k = n + 1 THEN 1 ELSE 0)
               /\ \A other \in Tuples(0..MaxDim) :
                    (InRange(ds, other) /\ other # ss)
                    => FockLoop(ds, other, 0) # FockLoop(ds, ss, 0))
        /\ (fpc = "done" /\ dims = IntArg(3) /\ states = IntArg(1))
           => ket = <<0, 1, 0>>
        /\ (fpc = "done" /\ ds = <<3, 2>> /\ ss = <<1, 0>>)
           => ket = <<0, 0, 1, 0, 0, 0>>

\* fock((3, 2), (1, 0)) has returned with its 1 at index 2
C8_Witness ==
    /\ fpc = "done"
    /\ dims = TupleArg(<<3, 2>>)
    /\ states = TupleArg(<<1, 0>>)
    /\ ket[3] = 1

-----------------------------------------------------------------------------
(* Properties of the Rouchon steps                                         *)

\* the operators of the design for a step with arguments tt and dt
KrausM0(tt, dt) == MSub(Eye, MScale(CMul(ImagI, dt), NonHermitian(H(tt))))

KrausM1s(dt) == ScaleAll(sqrt(dt), jump_ops)

KrausM0Second(tt, dt) ==
    SecondOrder(NonHermitian(H(tt)), CNeg(CMul(ImagI, dt)), CMul(dt, dt))

C9_ForwardOperatorsUseStepArguments ==
    last.op = "forward" =>
        CASE method = "Rouchon1" ->
               /\ M0(last.t, last.dt) = KrausM0(last.t, last.dt)
               /\ M1s = KrausM1s(last.dt)
          [] method = "Rouchon1_5" ->
               /\ MERouchon1_5_M0(last.dt) = KrausM0(last.t, last.dt)
               /\ MERouchon1_5_Ms(last.dt) = KrausM1s(last.dt)
               /\ MERouchon1_5_S(last.dt) =
                    NormalizationOf(KrausM0(last.t, last.dt), last.dt)
          [] method = "Rouchon2" ->
               /\ MERouchon2_forward_M0(last.t, last.dt)
                    = KrausM0Second(last.t, last.dt)
               /\ MERouchon2_forward_M1s(last.t, last.dt)
                    = Symmetrized(sqrt(last.dt), jump_ops,
                                  KrausM0Second(last.t, last.dt))

\* C10: in a backward step of order 1 or 2 the operators applied to phi are
\* the adjoints of the forward step's Kraus operators at the same (t, dt), rho
\* is advanced with the forward M0 at -dt and the jump term subtracted, and
\* rho alone is divided by its trace.
C10_BackwardOperatorsAreForwardAdjoints ==
    last.op = "backward" =>
        CASE method = "Rouchon1" ->
               /\ M0_adj(last.t, last.dt) = adjoint(M0(last.t, last.dt))
               /\ M1s_adj = AdjointAll(M1s)
               /\ rho = DivByTrace(
                          MSub(kraus_map(last.rho, <<M0(last.t, CNeg(last.dt))>>),
                               kraus_map(last.rho, M1s)))
               /\ phi = MAdd(kraus_map(last.phi, <<adjoint(M0(last.t, last.dt))>>),
                             kraus_map(last.phi, AdjointAll(M1s)))
          [] method = "Rouchon2" ->
               /\ MERouchon2_M0_adj(last.t, last.dt)
                    = adjoint(MERouchon2_forward_M0(last.t, last.dt))
               /\ MERouchon2_M1s_adj(last.t, last.dt)
                    = AdjointAll(MERouchon2_forward_M1s(last.t, last.dt))
               /\ rho = DivByTrace(
                          MERouchon2_step(last.rho, sqrt(last.dt), jump_ops,
                              MERouchon2_forward_M0(last.t, CNeg(last.dt)),
                              CNeg(One)))
               /\ phi = MERouchon2_step(last.phi, sqrt(last.dt),
                              AdjointAll(jump_ops),
                              adjoint(MERouchon2_forward_M0(last.t, last.dt)),
                              One)
          [] OTHER -> TRUE

=============================================================================
